---- MODULE Spec2Model ----
(***************************************************************************)
(* Clinical Validation API: the request pipeline of the two POST endpoints *)
(* (main.py), the validation services with their retry loop and response   *)
(* parser (services/medication_tests_validation_service.py) and the        *)
(* pydantic models the parser builds (models/schemas.py).                  *)
(*                                                                         *)
(* Numbers that are floats in the program (confidence_score) are kept in   *)
(* hundredths: 0.85 is 85, 1.5 is 150, -0.1 is -10.                        *)
(***************************************************************************)
EXTENDS Integers, Sequences, FiniteSets, TLC

VARIABLES
    settings,       \* config.settings: the process-wide configuration
    pc,             \* position of the process / of the request being served
    endpoint,       \* which POST endpoint serves the current request
    request,        \* the request body: its ordered item list
    system_prompt,  \* call_openai's system_prompt argument
    user_message,   \* validate's user_message local
    attempt,        \* call_openai's loop variable (0-based)
    calls,          \* completion calls issued for the current request
    outcomes,       \* class of each finished attempt, in order
    api_response,   \* validate's api_response local (decoded JSON)
    parses,         \* invocations of parse_validation_response
    result,         \* what validate returned or raised
    http,           \* the HTTP response sent for the current request
    service,        \* the validation services main.py constructs at import
    log,            \* log records emitted while serving the current request
    call_args,      \* keyword arguments of the latest completion call
    cancelled,      \* the task serving the request has been cancelled
    clock,          \* the instant datetime.utcnow() returns
    parsed,         \* results of direct calls of parse_validation_response
    tasks,          \* requests served concurrently: the coroutine of each
    content         \* call_openai's content local: the text of the reply

vars == <<settings, pc, endpoint, request, system_prompt, user_message, attempt,
          calls, outcomes, api_response, parses, result, http, service, log,
          call_args, cancelled, clock, parsed, tasks, content>>

\* what the steps of the first request's coroutine leave alone
others == <<clock, parsed, tasks>>

(***************************************************************************)
(* Bounds of the model.                                                    *)
(***************************************************************************)
MaxRetry == 3       \* largest configured MAX_RETRY_ATTEMPTS explored
MaxItems == 2       \* longest item list of a request
MaxParses == 3      \* parses of one raw reply explored
MaxClock == 2       \* clock readings between parses explored

Items == {"Aspirin", "Troponin"}

(***************************************************************************)
(* JSON scalars as json.loads yields them.  "absent" marks a key that the  *)
(* enclosing object does not have.                                         *)
(***************************************************************************)
Absent == [t |-> "absent", s |-> "", n |-> 0]
JNull == [t |-> "null", s |-> "", n |-> 0]
JNaN == [t |-> "nan", s |-> "", n |-> 0]
JStr(s) == [t |-> "str", s |-> s, n |-> 0]
JNum(n) == [t |-> "num", s |-> "", n |-> n]

(***************************************************************************)
(* Results of a step that may raise: ok with a value, or the exception's   *)
(* str().                                                                  *)
(***************************************************************************)
NoValue == [t |-> "none"]
Ok(v) == [ok |-> TRUE, value |-> v, err |-> ""]
Raise(e) == [ok |-> FALSE, value |-> NoValue, err |-> e]

(***************************************************************************)
(* config.py                                                               *)
(***************************************************************************)
DEFAULT_MAX_RETRY_ATTEMPTS == 3

AllowedStatus == {"SAFE", "CAUTION", "CONTRAINDICATED"}

SeverityLevels == {"critical", "high", "moderate", "low", "info"}

MEDICATION_VALIDATION_SYSTEM_PROMPT == "clinical pharmacist"

TEST_VALIDATION_SYSTEM_PROMPT == "clinical pathologist"

(***************************************************************************)
(* models/schemas.py: pydantic models.  A str field accepts a JSON string  *)
(* only; a required field must be present.                                 *)
(***************************************************************************)
IsStr(x) == x.t = "str"

IsOptionalStr(x) == x.t \in {"str", "null", "absent"}

\* variant: the model has no validator for overall_status
QuickSummary_NoValidator(overall_status, top_priority) ==
    IF IsStr(overall_status) /\ IsStr(top_priority)
    THEN Ok([overall_status |-> overall_status.s, top_priority |-> top_priority.s])
    ELSE Raise("validation error for QuickSummary")

\* QuickSummary(overall_status=..., top_priority=...)
QuickSummary(overall_status, top_priority) ==
    IF /\ IsStr(overall_status)
       /\ overall_status.s \in AllowedStatus
       /\ IsStr(top_priority)
    THEN Ok([overall_status |-> overall_status.s, top_priority |-> top_priority.s])
    ELSE Raise("validation error for QuickSummary")

\* DetailedValidation(**validation)
DetailedValidation(validation) ==
    IF validation.t # "obj"
    THEN Raise("argument after ** must be a mapping")
    ELSE IF /\ IsStr(validation.item)
            /\ IsStr(validation.severity)
            /\ IsStr(validation.issue)
            /\ IsStr(validation.recommendation)
            /\ IsOptionalStr(validation.evidence)
    THEN Ok([item |-> validation.item.s,
             severity |-> validation.severity.s,
             issue |-> validation.issue.s,
             recommendation |-> validation.recommendation.s,
             evidence |-> IF IsStr(validation.evidence)
                          THEN validation.evidence ELSE JNull])
    ELSE Raise("validation error for DetailedValidation")

\* RecommendedAlternative(**alt)
RecommendedAlternative(alt) ==
    IF alt.t # "obj"
    THEN Raise("argument after ** must be a mapping")
    ELSE IF /\ IsStr(alt.original_item)
            /\ IsStr(alt.alternative)
            /\ IsStr(alt.rationale)
    THEN Ok([original_item |-> alt.original_item.s,
             alternative |-> alt.alternative.s,
             rationale |-> alt.rationale.s])
    ELSE Raise("validation error for RecommendedAlternative")

\* variant: the field has no range constraint
ConfidenceInRange_Unchecked(c) == TRUE

\* confidence_score: float = Field(..., ge=0.0, le=1.0); NaN satisfies neither
ConfidenceInRange(c) == /\ ~c.nan
                        /\ c.v >= 0
                        /\ c.v <= 100

\* ValidationResponse(quick_summary=..., ...): the first three arguments are
\* model instances already, the confidence is range-checked, the timestamp
\* is the instant of construction
ValidationResponse(quick_summary, detailed_validations, recommended_alternatives, confidence_score) ==
    IF ConfidenceInRange(confidence_score)
    THEN Ok([quick_summary |-> quick_summary,
             detailed_validations |-> detailed_validations,
             recommended_alternatives |-> recommended_alternatives,
             confidence_score |-> confidence_score,
             timestamp |-> clock])
    ELSE Raise("validation error for ValidationResponse")

(***************************************************************************)
(* Decoded JSON values.  An object keeps one entry per key the parser      *)
(* reads; a key the object lacks is Absent.  A list value is a sequence.   *)
(***************************************************************************)
AbsentList == [t |-> "absent", elems |-> <<>>]
NullList == [t |-> "null", elems |-> <<>>]
JList(elems) == [t |-> "list", elems |-> elems]

AbsentSummary == [t |-> "absent", overall_status |-> Absent, top_priority |-> Absent]
SummaryObj(overall_status, top_priority) ==
    [t |-> "obj", overall_status |-> overall_status, top_priority |-> top_priority]

ValidationObj(item, severity, issue, recommendation, evidence) ==
    [t |-> "obj", item |-> item, severity |-> severity, issue |-> issue,
     recommendation |-> recommendation, evidence |-> evidence]

AlternativeObj(original_item, alternative, rationale) ==
    [t |-> "obj", original_item |-> original_item, alternative |-> alternative,
     rationale |-> rationale]

JObject(quick_summary, detailed_validations, recommended_alternatives, confidence_score) ==
    [t |-> "obj",
     quick_summary |-> quick_summary,
     detailed_validations |-> detailed_validations,
     recommended_alternatives |-> recommended_alternatives,
     confidence_score |-> confidence_score]

\* a decoded value that is no object: an array, a number, null
JOther(t) == [t |-> t,
              quick_summary |-> AbsentSummary,
              detailed_validations |-> AbsentList,
              recommended_alternatives |-> AbsentList,
              confidence_score |-> Absent]

NoResponse == JOther("none")

(***************************************************************************)
(* Python's float(): a number is itself, a string is parsed, anything else *)
(* raises.  NumericLiteral is the part of the string syntax explored.      *)
(***************************************************************************)
NumericLiteral == [s \in {"0.5", "1.5"} |-> IF s = "0.5" THEN 50 ELSE 150]

\* variant: a value that cannot be converted becomes the default 0.85
Float_Defaulting(x) ==
    CASE x.t = "num" -> Ok([v |-> x.n, nan |-> FALSE])
      [] x.t = "nan" -> Ok([v |-> 0, nan |-> TRUE])
      [] x.t = "str" /\ x.s \in DOMAIN NumericLiteral ->
            Ok([v |-> NumericLiteral[x.s], nan |-> FALSE])
      [] OTHER -> Ok([v |-> 85, nan |-> FALSE])

Float(x) ==
    CASE x.t = "num" -> Ok([v |-> x.n, nan |-> FALSE])
      [] x.t = "nan" -> Ok([v |-> 0, nan |-> TRUE])
      [] x.t = "str" ->
            IF x.s \in DOMAIN NumericLiteral
            THEN Ok([v |-> NumericLiteral[x.s], nan |-> FALSE])
            ELSE Raise("could not convert string to float")
      [] OTHER -> Raise("float() argument must be a string or a real number")

(***************************************************************************)
(* services/medication_tests_validation_service.py                         *)
(***************************************************************************)
DEFAULT_CONFIDENCE == 85

\* api_response.get("confidence_score", 0.85)
GetConfidence(resp) ==
    IF resp.confidence_score.t = "absent"
    THEN JNum(DEFAULT_CONFIDENCE)
    ELSE resp.confidence_score

\* variant: .get(key) without a default, so a missing key gives None
GetList_NoDefault(field) ==
    IF field.t = "absent" THEN NullList ELSE field

\* api_response.get(key, []) for the two list fields
GetList(field) ==
    IF field.t = "absent" THEN JList(<<>>) ELSE field

\* [Model(**e) for e in field], with built[i] what Model(**field[i]) gives:
\* elements are built in order, the first one that is rejected raises
BuildList(field, built) ==
    IF field.t # "list"
    THEN Raise("object is not iterable")
    ELSE LET bad == {i \in 1..Len(built) : ~built[i].ok}
         IN IF bad = {}
            THEN Ok([i \in 1..Len(built) |-> built[i].value])
            ELSE Raise(built[CHOOSE i \in bad : \A j \in bad : i <= j].err)

\* api_response["quick_summary"]["overall_status"] and [...]["top_priority"],
\* then QuickSummary(...)
ParseQuickSummary(resp) ==
    IF resp.t # "obj"
    THEN Raise("value is not subscriptable by a string key")
    ELSE IF resp.quick_summary.t = "absent"
    THEN Raise("'quick_summary'")
    ELSE IF resp.quick_summary.t # "obj"
    THEN Raise("value is not subscriptable by a string key")
    ELSE IF resp.quick_summary.overall_status.t = "absent"
    THEN Raise("'overall_status'")
    ELSE IF resp.quick_summary.top_priority.t = "absent"
    THEN Raise("'top_priority'")
    ELSE QuickSummary(resp.quick_summary.overall_status,
                      resp.quick_summary.top_priority)

\* lines 87-114: the body of the try block
ParseBody(resp) ==
    LET quick_summary == ParseQuickSummary(resp)
        validations == GetList(resp.detailed_validations)
        detailed_validations ==
            BuildList(validations,
                      [i \in 1..Len(validations.elems) |->
                          DetailedValidation(validations.elems[i])])
        alternatives == GetList(resp.recommended_alternatives)
        recommended_alternatives ==
            BuildList(alternatives,
                      [i \in 1..Len(alternatives.elems) |->
                          RecommendedAlternative(alternatives.elems[i])])
        confidence_score == Float(GetConfidence(resp))
    IN IF ~quick_summary.ok THEN quick_summary
       ELSE IF ~detailed_validations.ok THEN detailed_validations
       ELSE IF ~recommended_alternatives.ok THEN recommended_alternatives
       ELSE IF ~confidence_score.ok THEN confidence_score
       ELSE ValidationResponse(quick_summary.value, detailed_validations.value,
                               recommended_alternatives.value,
                               confidence_score.value)

\* an exception as the program raises it: its message is a concatenation
Exception(msg) == [ok |-> FALSE, value |-> NoValue, err |-> msg]

ParseErrorPrefix == "Failed to parse validation response: "

\* variant: no try/except, the exception of the body escapes as it is
parse_validation_response_Unwrapped(resp) ==
    LET body == ParseBody(resp)
    IN IF body.ok
       THEN [ok |-> TRUE, value |-> body.value, err |-> <<>>]
       ELSE Exception(<<body.err>>)

\* variant: the confidence is read with dict.pop, which removes the key
RawAfterParse_Pop(resp) ==
    IF resp.t = "obj" THEN [resp EXCEPT !.confidence_score = Absent] ELSE resp

\* the raw dict after parse_validation_response: it is read with [] and .get
\* only, never assigned to
RawAfterParse(resp) == resp

\* parse_validation_response: any exception of the body is wrapped
parse_validation_response(resp) ==
    LET body == ParseBody(resp)
    IN IF body.ok
       THEN [ok |-> TRUE, value |-> body.value, err |-> <<>>]
       ELSE Exception(<<ParseErrorPrefix, body.err>>)


(***************************************************************************)
(* What the external completion service may do on one call.  The replies   *)
(* vary one part of a well-formed reply at a time.                         *)
(***************************************************************************)
GoodSummary == SummaryObj(JStr("SAFE"), JStr("No critical issues found"))

GoodValidation ==
    ValidationObj(JStr("Aspirin"), JStr("moderate"), JStr("dosing"),
                  JStr("adjust dose"), JStr("pediatric patient"))

GoodAlternative ==
    AlternativeObj(JStr("Aspirin"), JStr("Paracetamol"), JStr("safer"))

Summaries ==
    {AbsentSummary,
     [AbsentSummary EXCEPT !.t = "str"],
     [AbsentSummary EXCEPT !.t = "null"]}
    \cup {SummaryObj(s, JStr("No critical issues found")) :
            s \in {Absent, JNull, JNum(1), JStr("SAFE"), JStr("CAUTION"),
                   JStr("CONTRAINDICATED"), JStr("UNKNOWN"), JStr("safe")}}
    \cup {SummaryObj(JStr("CAUTION"), p) : p \in {Absent, JNull, JNum(1)}}

DetailLists ==
    {AbsentList, NullList, JList(<<>>), JList(<<GoodValidation>>),
     JList(<<[GoodValidation EXCEPT !.evidence = Absent]>>),
     JList(<<[GoodValidation EXCEPT !.item = Absent]>>),
     JList(<<[GoodValidation EXCEPT !.t = "str"]>>)}
    \cup {JList(<<GoodValidation, [GoodValidation EXCEPT !.severity = s]>>) :
            s \in {JStr("critical"), JStr("info"), JStr("urgent"), JStr("HIGH"),
                   JNum(1), Absent}}

AlternativeLists ==
    {AbsentList, JList(<<>>), JList(<<GoodAlternative>>),
     JList(<<GoodAlternative,
             [GoodAlternative EXCEPT !.alternative = JStr("Ibuprofen")]>>),
     JList(<<GoodAlternative, [GoodAlternative EXCEPT !.rationale = Absent]>>)}

Confidences ==
    {Absent, JNull, JNaN, JStr("0.5"), JStr("1.5"), JStr("high")}
    \cup {JNum(n) : n \in {0 - 10, 0 - 1, 0, 85, 95, 100, 101, 150}}

RawReplies ==
    {JOther("list"), JOther("num"), JOther("null"),
     JObject(GoodSummary, AbsentList, AbsentList, Absent)}
    \cup {JObject(q, JList(<<>>), JList(<<>>), JNum(95)) : q \in Summaries}
    \cup {JObject(GoodSummary, d, JList(<<>>), JNum(95)) : d \in DetailLists}
    \cup {JObject(GoodSummary, JList(<<>>), a, JNum(95)) : a \in AlternativeLists}
    \cup {JObject(GoodSummary, JList(<<GoodValidation>>), JList(<<>>), c) :
            c \in Confidences}

\* the text of message.content: malformed, or the encoding of a JSON value
JsonText(v) == [wellformed |-> TRUE, value |-> v]
MalformedText == [wellformed |-> FALSE, value |-> NoResponse]

\* json.loads(content)
json_loads(text) ==
    IF text.wellformed THEN Ok(text.value) ELSE Raise("JSONDecodeError")

\* one call of client.chat.completions.create and the two lines after it
\* (59-60): the exception class raised, or the decoded value
CompletionOutcomes ==
    {[class |-> "APIError", err |-> "Connection error.", content |-> MalformedText],
     [class |-> "IndexError", err |-> "list index out of range",
      content |-> MalformedText],
     [class |-> "TypeError", err |-> "the JSON object must be str, not NoneType",
      content |-> MalformedText]}
    \cup {[class |-> "text", err |-> "", content |-> c] :
            c \in {MalformedText} \cup {JsonText(v) : v \in RawReplies}}

\* variant: the schema check runs inside the retry loop, so a reply the
\* parser rejects counts as a failed attempt
AttemptResult_Validating(o) ==
    IF o.class # "text"
    THEN [ok |-> FALSE, class |-> o.class, err |-> o.err, value |-> NoResponse]
    ELSE LET decoded == json_loads(o.content)
         IN IF decoded.ok /\ parse_validation_response(decoded.value).ok
            THEN [ok |-> TRUE, class |-> "ok", err |-> "", value |-> decoded.value]
            ELSE [ok |-> FALSE, class |-> "JSONDecodeError",
                  err |-> "Expecting value", value |-> NoResponse]

\* variant: a decoded value that is not a JSON object is refused like text
\* that does not decode
AttemptResult_ObjectsOnly(o) ==
    IF o.class # "text"
    THEN [ok |-> FALSE, class |-> o.class, err |-> o.err, value |-> NoResponse]
    ELSE LET decoded == json_loads(o.content)
         IN IF decoded.ok /\ decoded.value.t = "obj"
            THEN [ok |-> TRUE, class |-> "ok", err |-> "", value |-> decoded.value]
            ELSE [ok |-> FALSE, class |-> "JSONDecodeError",
                  err |-> "Expecting value", value |-> NoResponse]

\* variant: a reply without choices or with null content is handled as text
\* that does not decode
AttemptResult_NoTextAsJsonError(o) ==
    IF o.class = "APIError"
    THEN [ok |-> FALSE, class |-> o.class, err |-> o.err, value |-> NoResponse]
    ELSE LET decoded == json_loads(o.content)
         IN IF o.class = "text" /\ decoded.ok
            THEN [ok |-> TRUE, class |-> "ok", err |-> "", value |-> decoded.value]
            ELSE [ok |-> FALSE, class |-> "JSONDecodeError",
                  err |-> "Expecting value", value |-> NoResponse]

\* lines 48-60 of one attempt: ok with the decoded value, or the exception
AttemptResult(o) ==
    IF o.class # "text"
    THEN [ok |-> FALSE, class |-> o.class, err |-> o.err, value |-> NoResponse]
    ELSE LET decoded == json_loads(o.content)
         IN IF decoded.ok
            THEN [ok |-> TRUE, class |-> "ok", err |-> "", value |-> decoded.value]
            ELSE [ok |-> FALSE, class |-> "JSONDecodeError",
                  err |-> "Expecting value", value |-> NoResponse]

(***************************************************************************)
(* Prompt building.                                                        *)
(***************************************************************************)
\* variant: enumerate(items) without the start argument numbers from 0
FormatItems_FromZero(items) ==
    [i \in 1..Len(items) |-> [number |-> i - 1, sep |-> ". ", text |-> items[i]]]

\* the request's list after formatting: the loop only iterates over it
ItemsAfterFormat(items) == items

\* _format_medications / _format_tests: enumerate(items, 1), then join
FormatItems(items) ==
    [i \in 1..Len(items) |-> [number |-> i, sep |-> ". ", text |-> items[i]]]

_format_medications(medications) == FormatItems(medications)

_format_tests(tests) == FormatItems(tests)

_prepare_medication_message(req) ==
    [template |-> "Please validate the following medication prescription",
     mrn |-> req.mrn,
     listing |-> _format_medications(req.items)]

_prepare_test_message(req) ==
    [template |-> "Please validate the following diagnostic test order",
     mrn |-> req.mrn,
     listing |-> _format_tests(req.items)]

Endpoints == {"medication", "tests"}

ItemLists == UNION {[1..n -> Items] : n \in 0..MaxItems}

Requests == [mrn : {"1000"}, items : ItemLists]

(***************************************************************************)
(* Log records and HTTP responses.                                         *)
(***************************************************************************)
Info(logger, msg) == [logger |-> logger, level |-> "INFO", msg |-> msg]
Error(logger, msg) == [logger |-> logger, level |-> "ERROR", msg |-> msg]

NoResult == [ok |-> FALSE, value |-> NoValue, err |-> <<>>]
NoHttp == [status_code |-> 0, kind |-> "none", model |-> NoValue,
           error |-> [message |-> <<>>, status_code |-> 0]]
NoService == [t |-> "none", model |-> "", temperature |-> 0, max_tokens |-> 0]
NoRequest == [mrn |-> "", items |-> <<>>]
NoMessage == [template |-> "", mrn |-> "", listing |-> <<>>]

NoCall == [model |-> "", system |-> "", user |-> NoMessage, temperature |-> 0,
           max_tokens |-> 0, response_format |-> "",
           timeout |-> [given |-> FALSE, seconds |-> 0]]

\* the content local before its first assignment
NoText == [set |-> FALSE, null |-> FALSE,
           text |-> [wellformed |-> FALSE, value |-> NoResponse]]

\* the coroutine of a request: the locals of the endpoint, of validate and of
\* call_openai, with its position
NoTask == [pc |-> "idle", endpoint |-> "none", request |-> NoRequest,
           system_prompt |-> "", user_message |-> NoMessage, attempt |-> 0,
           calls |-> 0, outcomes |-> <<>>, api_response |-> NoResponse,
           parses |-> 0, result |-> NoResult, http |-> NoHttp, log |-> <<>>,
           call_args |-> NoCall, content |-> NoText]

\* the requests served concurrently by the one event loop
Tasks == {1, 2}

RetrySettings == 0..MaxRetry


(***************************************************************************)
(* The process.  config.py reads the settings from the environment; the    *)
(* API key and the retry limit are the two the pipeline branches on.       *)
(***************************************************************************)
Settings ==
    [OPENAI_API_KEY : {"", "sk-key"},
     OPENAI_MODEL : {"gpt-4o"},
     OPENAI_TEMPERATURE : {20},
     OPENAI_MAX_TOKENS : {2000},
     MAX_RETRY_ATTEMPTS : RetrySettings,
     REQUEST_TIMEOUT : {60}]

Init ==
    /\ settings \in Settings
    /\ pc = "import"
    /\ endpoint = "none"
    /\ request = NoRequest
    /\ system_prompt = ""
    /\ user_message = NoMessage
    /\ attempt = 0
    /\ calls = 0
    /\ outcomes = <<>>
    /\ api_response = NoResponse
    /\ parses = 0
    /\ result = NoResult
    /\ http = NoHttp
    /\ service = NoService
    /\ log = <<>>
    /\ call_args = NoCall
    /\ cancelled = FALSE
    /\ content = NoText
    /\ clock = 0
    /\ parsed = <<>>
    /\ tasks = [i \in Tasks |-> NoTask]

\* variant: the constructor does not look at the key
ServiceInit_NoKeyCheck ==
    [ok |-> TRUE,
     service |-> [t |-> "service",
                  model |-> settings.OPENAI_MODEL,
                  temperature |-> settings.OPENAI_TEMPERATURE,
                  max_tokens |-> settings.OPENAI_MAX_TOKENS]]

\* BaseValidationService.__init__, run for both services when main.py is
\* imported: without a key the constructor raises and the import fails
ServiceInit ==
    IF settings.OPENAI_API_KEY = ""
    THEN [ok |-> FALSE, service |-> NoService]
    ELSE [ok |-> TRUE,
          service |-> [t |-> "service",
                       model |-> settings.OPENAI_MODEL,
                       temperature |-> settings.OPENAI_TEMPERATURE,
                       max_tokens |-> settings.OPENAI_MAX_TOKENS]]

Startup ==
    /\ pc = "import"
    /\ service' = ServiceInit.service
    /\ pc' = IF ServiceInit.ok THEN "ready" ELSE "config_error"
    /\ UNCHANGED <<settings, endpoint, request, system_prompt, user_message,
                   attempt, calls, outcomes, api_response, parses, result, http,
                   log, call_args, cancelled, content, others>>

\* the system prompt validate passes for its kind of request
SystemPromptOf(ep) ==
    IF ep = "medication"
    THEN MEDICATION_VALIDATION_SYSTEM_PROMPT
    ELSE TEST_VALIDATION_SYSTEM_PROMPT

\* variant: the listing is appended to a buffer kept on the service instance,
\* which a request still being served has already filled
UserMessageOf_Accumulating(ep, req) ==
    LET m == IF ep = "medication"
             THEN _prepare_medication_message(req)
             ELSE _prepare_test_message(req)
    IN IF \E i \in Tasks : tasks[i].pc # "idle"
       THEN [m EXCEPT !.listing = m.listing \o m.listing]
       ELSE m

\* the user message validate builds for its kind of request
UserMessageOf(ep, req) ==
    IF ep = "medication"
    THEN _prepare_medication_message(req)
    ELSE _prepare_test_message(req)

\* A POST arrives: the endpoint logs, calls validate, which logs, builds the
\* user message and enters call_openai
HandleRequest(ep, req) ==
    /\ pc = "ready"
    /\ endpoint' = ep
    /\ request' = [req EXCEPT !.items = ItemsAfterFormat(req.items)]
    /\ log' = <<Info("main", "Processing validation"),
                Info("service", "Starting validation")>>
    /\ user_message' = UserMessageOf(ep, req)
    /\ system_prompt' = SystemPromptOf(ep)
    /\ pc' = "loop"
    /\ UNCHANGED <<settings, attempt, calls, outcomes, api_response, parses,
                   result, http, service, call_args, cancelled, content, others>>

\* variant: one iteration too many
LoopHasNext_OffByOne == attempt <= settings.MAX_RETRY_ATTEMPTS

\* for attempt in range(MAX_RETRY_ATTEMPTS): is there an iteration left
LoopHasNext == attempt < settings.MAX_RETRY_ATTEMPTS

\* variant: the final attempt is looked for one iteration too late
IsFinalAttempt_Late == attempt = settings.MAX_RETRY_ATTEMPTS

\* if attempt == settings.MAX_RETRY_ATTEMPTS - 1
IsFinalAttempt == attempt = settings.MAX_RETRY_ATTEMPTS - 1

\* lines 48-57: the keyword arguments of chat.completions.create; no timeout
\* is passed, and the client was built (line 28) without one
CompletionArgs(system, user) ==
    [model |-> service.model,
     system |-> system,
     user |-> user,
     temperature |-> service.temperature,
     max_tokens |-> service.max_tokens,
     response_format |-> "json_object",
     timeout |-> [given |-> FALSE, seconds |-> 0]]

\* lines 46-57: the attempt is logged and the completion call is issued
IssueCall ==
    /\ pc = "loop"
    /\ LoopHasNext
    /\ log' = Append(log, Info("service", "Calling OpenAI API"))
    /\ calls' = calls + 1
    /\ call_args' = CompletionArgs(system_prompt, user_message)
    /\ pc' = "awaiting"
    /\ UNCHANGED <<settings, endpoint, request, system_prompt, user_message,
                   attempt, outcomes, api_response, parses, result, http, service,
                   cancelled, content, others>>

\* line 75: the loop ended without returning or raising
LoopExhausted ==
    /\ pc = "loop"
    /\ ~LoopHasNext
    /\ result' = Exception(<<"Max retry attempts reached">>)
    /\ pc' = "validated"
    /\ UNCHANGED <<settings, endpoint, request, system_prompt, user_message,
                   attempt, calls, outcomes, api_response, parses, http, service,
                   log, call_args, cancelled, content, others>>

JsonFailureMessage == "Failed to parse OpenAI response as JSON"

ApiFailurePrefix == "OpenAI API call failed: "

\* variant: one except clause for every failure
TerminalError_OneClause(r) == Exception(<<ApiFailurePrefix, r.err>>)

\* variant: the final failure is swallowed and an empty SAFE response is
\* returned in its place
TerminalError_Recovered(r) ==
    [ok |-> TRUE,
     value |-> [quick_summary |-> [overall_status |-> "SAFE", top_priority |-> ""],
                detailed_validations |-> <<>>,
                recommended_alternatives |-> <<>>,
                confidence_score |-> [v |-> 0, nan |-> FALSE],
                timestamp |-> clock],
     err |-> <<>>]

\* the terminal exception of the final attempt, by the except clause taken
TerminalError(r) ==
    IF r.class = "JSONDecodeError"
    THEN Exception(<<JsonFailureMessage>>)
    ELSE Exception(<<ApiFailurePrefix, r.err>>)

\* variant: a failed attempt is logged at INFO level
AttemptErrorLog_Info(r) ==
    IF r.class = "JSONDecodeError"
    THEN Info("service", "JSON decode error")
    ELSE Info("service", "OpenAI API error")

\* the error record of the except clause taken
AttemptErrorLog(r) ==
    IF r.class = "JSONDecodeError"
    THEN Error("service", "JSON decode error")
    ELSE Error("service", "OpenAI API error")

\* variant: the first failure is terminal, nothing is retried
RaisesAfter_NoRetry(r) == TRUE

\* does a failed attempt end call_openai (raise) rather than continue the loop
RaisesAfter(r) == IsFinalAttempt

\* line 59: content = response.choices[0].message.content.  The local is
\* assigned when the call returned with a choice (text, or None for null
\* content); when create raised or there was no choice it keeps what it had
ContentAfter(before, o) ==
    IF o.class \in {"text", "TypeError"}
    THEN [set |-> TRUE, null |-> o.class = "TypeError", text |-> o.content]
    ELSE before

\* what the completion service did on a call, as the caller of the service
\* sees it: an error, no choices, null content, text that is JSON or is not
OutcomeKind(o) ==
    IF o.class # "text" THEN o.class
    ELSE IF o.content.wellformed THEN "json" ELSE "non_json"

\* lines 59-73: the awaited call finishes, with o what the service did
CompletionReturns(o) ==
    LET r == AttemptResult(o)
    IN /\ pc = "awaiting"
       /\ outcomes' = Append(outcomes, OutcomeKind(o))
       /\ IF r.ok
          THEN /\ log' = Append(log, Info("service", "OpenAI API call successful"))
               /\ api_response' = r.value
               /\ pc' = "parse"
               /\ UNCHANGED <<attempt, result>>
          ELSE /\ log' = Append(log, AttemptErrorLog(r))
               /\ IF RaisesAfter(r)
                  THEN /\ result' = TerminalError(r)
                       /\ pc' = "validated"
                       /\ UNCHANGED attempt
                  ELSE /\ attempt' = attempt + 1
                       /\ pc' = "loop"
                       /\ UNCHANGED result
               /\ UNCHANGED api_response
       /\ content' = ContentAfter(content, o)
       /\ UNCHANGED <<settings, endpoint, request, system_prompt, user_message,
                      calls, parses, http, service, call_args, cancelled, others>>

\* variant: the handler is a bare except, which catches every exception
CaughtByExcept_Bare(class) == TRUE

\* lines 65-70: the two clauses catch json.JSONDecodeError and Exception;
\* asyncio.CancelledError derives from BaseException and passes both
CaughtByExcept(class) == class # "CancelledError"

\* the task serving the request is cancelled while the completion call is in
\* flight: the await raises CancelledError in call_openai
Cancel ==
    /\ pc = "awaiting"
    /\ cancelled' = TRUE
    /\ IF CaughtByExcept("CancelledError")
       THEN /\ log' = Append(log, Error("service", "OpenAI API error"))
            /\ IF IsFinalAttempt
               THEN /\ result' = Exception(<<ApiFailurePrefix, "">>)
                    /\ pc' = "validated"
                    /\ UNCHANGED attempt
               ELSE /\ attempt' = attempt + 1
                    /\ pc' = "loop"
                    /\ UNCHANGED result
       ELSE /\ pc' = "cancelled"
            /\ UNCHANGED <<attempt, result, log>>
    /\ UNCHANGED <<settings, endpoint, request, system_prompt, user_message,
                   calls, outcomes, api_response, parses, http, service,
                   call_args, content, others>>

\* validate, after call_openai returned: parse, log, return (or the parse
\* error propagates)
ParseStep ==
    LET r == parse_validation_response(api_response)
    IN /\ pc = "parse"
       /\ parses' = parses + 1
       /\ result' = r
       /\ log' = Append(log, IF r.ok
                             THEN Info("service", "Validation completed")
                             ELSE Error("service",
                                        "Error parsing validation response"))
       /\ pc' = "validated"
       /\ api_response' = RawAfterParse(api_response)
       /\ UNCHANGED <<settings, endpoint, request, system_prompt, user_message,
                      attempt, calls, outcomes, http, service,
                      call_args, cancelled, content, others>>

\* detail=f"Medication validation failed: {str(e)}" / "Test validation failed"
DetailPrefix(ep) ==
    IF ep = "medication"
    THEN "Medication validation failed: "
    ELSE "Test validation failed: "

\* variant: the JSONResponse is built without status_code, so it is a 200
http_exception_handler_DefaultStatus(status_code, detail) ==
    [status_code |-> 200,
     kind |-> "error",
     model |-> NoValue,
     error |-> [message |-> detail, status_code |-> status_code]]

\* http_exception_handler: the JSON body for an HTTPException
http_exception_handler(status_code, detail) ==
    [status_code |-> status_code,
     kind |-> "error",
     model |-> NoValue,
     error |-> [message |-> detail, status_code |-> status_code]]

\* variant: the failure is answered as general_exception_handler would, with
\* a fixed message that leaves out str(e)
EndpointResponse_Generic(ep, res) ==
    IF res.ok
    THEN [status_code |-> 200, kind |-> "model", model |-> res.value,
          error |-> NoHttp.error]
    ELSE http_exception_handler(500, <<"An internal error occurred">>)

\* the endpoint's try/except around validate: the response sent
EndpointResponse(ep, res) ==
    IF res.ok
    THEN [status_code |-> 200, kind |-> "model", model |-> res.value,
          error |-> NoHttp.error]
    ELSE http_exception_handler(500, <<DetailPrefix(ep)>> \o res.err)

\* validate returned or raised: the endpoint logs and the response is sent
Respond ==
    /\ pc = "validated"
    /\ http' = EndpointResponse(endpoint, result)
    /\ log' = Append(log, IF result.ok
                          THEN Info("main", "Validation completed")
                          ELSE Error("main", "Error in validation"))
    /\ pc' = "done"
    /\ UNCHANGED <<settings, endpoint, request, system_prompt, user_message,
                   attempt, calls, outcomes, api_response, parses, result, service,
                   call_args, cancelled, content, others>>

\* the response has been sent, or the CancelledError has left the endpoint:
\* the coroutine's locals are gone and the process waits for the next request
RequestDone ==
    /\ pc \in {"done", "cancelled"}
    /\ endpoint' = "none"
    /\ request' = NoRequest
    /\ system_prompt' = ""
    /\ user_message' = NoMessage
    /\ attempt' = 0
    /\ calls' = 0
    /\ outcomes' = <<>>
    /\ api_response' = NoResponse
    /\ parses' = 0
    /\ result' = NoResult
    /\ http' = NoHttp
    /\ log' = <<>>
    /\ call_args' = NoCall
    /\ cancelled' = FALSE
    /\ content' = NoText
    /\ pc' = "ready"
    /\ UNCHANGED <<settings, service, others>>

Next ==
    \/ Startup
    \/ \E ep \in Endpoints, req \in Requests : HandleRequest(ep, req)
    \/ IssueCall
    \/ LoopExhausted
    \/ \E o \in CompletionOutcomes : CompletionReturns(o)
    \/ Cancel
    \/ ParseStep
    \/ Respond
    \/ RequestDone

Spec == Init /\ [][Next]_vars


(***************************************************************************)
(* Vocabulary of the properties.                                           *)
(***************************************************************************)
FailureKinds == {"APIError", "IndexError", "TypeError", "non_json"}

\* a request is being served
Serving == pc \in {"loop", "awaiting", "parse", "validated", "done"}

\* validate has returned or raised
Finished == pc \in {"validated", "done"}

AllFailed == \A i \in 1..Len(outcomes) : outcomes[i] \in FailureKinds

\* validate ended because call_openai raised
CompletionFailed == Finished /\ parses = 0

\* a reply that conforms to the response schema of the data model
SchemaValidItem(e) ==
    /\ e.t = "obj"
    /\ \A f \in {e.item, e.issue, e.recommendation} : f.t = "str"
    /\ e.severity.t = "str" /\ e.severity.s \in SeverityLevels
    /\ e.evidence.t \in {"str", "null", "absent"}

SchemaValidAlternative(a) ==
    /\ a.t = "obj"
    /\ \A f \in {a.original_item, a.alternative, a.rationale} : f.t = "str"

SchemaValid(resp) ==
    /\ resp.t = "obj"
    /\ resp.quick_summary.t = "obj"
    /\ resp.quick_summary.overall_status.t = "str"
    /\ resp.quick_summary.overall_status.s \in AllowedStatus
    /\ resp.quick_summary.top_priority.t = "str"
    /\ resp.detailed_validations.t \in {"absent", "list"}
    /\ \A i \in 1..Len(resp.detailed_validations.elems) :
          SchemaValidItem(resp.detailed_validations.elems[i])
    /\ resp.recommended_alternatives.t \in {"absent", "list"}
    /\ \A i \in 1..Len(resp.recommended_alternatives.elems) :
          SchemaValidAlternative(resp.recommended_alternatives.elems[i])
    /\ \/ resp.confidence_score.t = "absent"
       \/ /\ resp.confidence_score.t = "num"
          /\ resp.confidence_score.n >= 0
          /\ resp.confidence_score.n <= 100

(***************************************************************************)
(* C1.  If the completion call fails on attempts 1..k-1 (k <= the          *)
(* configured maximum) and returns schema-valid JSON on attempt k, validate *)
(* returns a successful response and exactly k calls were made: the loop    *)
(* keeps going while only failures were seen and budget remains, and no     *)
(* call follows the first success.                                          *)
(***************************************************************************)
C1_RetryUntilSuccess ==
    LET k == Len(outcomes)
    IN /\ (k >= 1 /\ outcomes[k] = "json") =>
            /\ k <= settings.MAX_RETRY_ATTEMPTS
            /\ \A i \in 1..(k - 1) : outcomes[i] \in FailureKinds
            /\ calls = k
            /\ pc \in {"parse", "validated", "done"}
            /\ (Finished /\ SchemaValid(api_response)) => result.ok
            /\ (pc = "done" /\ SchemaValid(api_response)) => http.status_code = 200
       /\ (Serving /\ AllFailed /\ k < settings.MAX_RETRY_ATTEMPTS) =>
            pc \in {"loop", "awaiting"}

C1_Witness ==
    /\ pc = "validated"
    /\ settings.MAX_RETRY_ATTEMPTS = DEFAULT_MAX_RETRY_ATTEMPTS
    /\ outcomes = <<"APIError", "non_json", "json">>
    /\ calls = 3
    /\ SchemaValid(api_response)
    /\ result.ok

(***************************************************************************)
(* C2.  If every attempt fails, in any mix of failure kinds, call_openai   *)
(* raises a terminal error after exactly MAX_RETRY_ATTEMPTS calls; the     *)
(* number of calls of one validate never exceeds MAX_RETRY_ATTEMPTS.       *)
(***************************************************************************)
C2_BudgetExhausted ==
    /\ calls <= settings.MAX_RETRY_ATTEMPTS
    /\ Len(outcomes) <= calls
    /\ CompletionFailed =>
          /\ ~result.ok
          /\ AllFailed
          /\ calls = settings.MAX_RETRY_ATTEMPTS
          /\ Len(outcomes) = settings.MAX_RETRY_ATTEMPTS
    /\ (Serving /\ AllFailed /\ Len(outcomes) = settings.MAX_RETRY_ATTEMPTS) =>
          \/ CompletionFailed
          \/ settings.MAX_RETRY_ATTEMPTS = 0 /\ pc = "loop"

C2_Witness ==
    /\ pc = "validated"
    /\ settings.MAX_RETRY_ATTEMPTS = DEFAULT_MAX_RETRY_ATTEMPTS
    /\ outcomes = <<"non_json", "APIError", "TypeError">>
    /\ calls = 3
    /\ ~result.ok

(***************************************************************************)
(* C3.  A schema-validation failure is never retried: once the completion  *)
(* call has returned text that is JSON, that attempt is the last one; when *)
(* the parser rejects the value, validate fails at once with the parse     *)
(* error, whatever budget remains.                                         *)
(***************************************************************************)
C3_SchemaFailureNotRetried ==
    /\ parses <= 1
    /\ \A i \in 1..Len(outcomes) :
          outcomes[i] = "json" =>
             /\ i = Len(outcomes)
             /\ calls = i
             /\ pc \in {"parse", "validated", "done"}
    /\ (Finished /\ parses = 1 /\ ~parse_validation_response(api_response).ok) =>
          /\ ~result.ok
          /\ result.err[1] = ParseErrorPrefix

C3_Witness ==
    /\ pc = "validated"
    /\ settings.MAX_RETRY_ATTEMPTS = DEFAULT_MAX_RETRY_ATTEMPTS
    /\ api_response.quick_summary.overall_status = JStr("UNKNOWN")
    /\ outcomes = <<"json">>
    /\ calls = 1
    /\ ~result.ok


\* the parser was run on the decoded reply and validate has ended
Parsed == Finished /\ parses = 1

\* the reply with its confidence_score taken out
WithoutConfidence(resp) == [resp EXCEPT !.confidence_score = Absent]

(***************************************************************************)
(* C4.  Every response the parser returns has confidence_score within      *)
(* [0.0, 1.0]; a reply whose confidence_score is a number outside that     *)
(* interval (1.5, -0.1) makes the parser fail: the value is never clamped. *)
(***************************************************************************)
C4_ConfidenceWithinRange ==
    /\ result.ok =>
          /\ ~result.value.confidence_score.nan
          /\ result.value.confidence_score.v >= 0
          /\ result.value.confidence_score.v <= 100
    /\ (result.ok /\ api_response.confidence_score.t = "num") =>
          result.value.confidence_score.v = api_response.confidence_score.n
    /\ (Parsed /\ api_response.confidence_score.t = "num"
               /\ ~(api_response.confidence_score.n \in 0..100)) => ~result.ok
    /\ (Parsed /\ api_response.confidence_score = JStr("1.5")) => ~result.ok

C4_Witness ==
    /\ pc = "validated"
    /\ parses = 1
    /\ SchemaValid(WithoutConfidence(api_response))
    /\ api_response.confidence_score = JNum(150)
    /\ ~result.ok

(***************************************************************************)
(* C5.  Every response the parser returns has an overall_status that is    *)
(* exactly SAFE, CAUTION or CONTRAINDICATED; any other string in the reply *)
(* makes the parser fail.                                                  *)
(***************************************************************************)
C5_StatusIsAllowed ==
    /\ result.ok =>
          /\ result.value.quick_summary.overall_status \in AllowedStatus
          /\ result.value.quick_summary.overall_status
                = api_response.quick_summary.overall_status.s
    /\ (Parsed /\ api_response.quick_summary.t = "obj"
               /\ api_response.quick_summary.overall_status.t = "str"
               /\ api_response.quick_summary.overall_status.s \notin AllowedStatus)
          => ~result.ok

C5_Witness ==
    /\ pc = "validated"
    /\ parses = 1
    /\ api_response.quick_summary.overall_status = JStr("safe")
    /\ api_response.quick_summary.top_priority.t = "str"
    /\ ~result.ok

(***************************************************************************)
(* C6.  As stated: when confidence_score is present but cannot be coerced  *)
(* to a number (a non-numeric string, null), the parser uses 0.85 and      *)
(* succeeds, as it does when the field is absent.                          *)
(***************************************************************************)
NotCoercible(x) ==
    \/ x.t = "null"
    \/ x.t = "str" /\ x.s \notin DOMAIN NumericLiteral

C6_DefaultWhenNotCoercible ==
    (Parsed /\ SchemaValid(WithoutConfidence(api_response))
            /\ (NotCoercible(api_response.confidence_score)
                \/ api_response.confidence_score.t = "absent")) =>
       /\ result.ok
       /\ result.value.confidence_score = [v |-> DEFAULT_CONFIDENCE, nan |-> FALSE]

(***************************************************************************)
(* C6, amended.  The default 0.85 is used only when confidence_score is   *)
(* absent, and the parser then succeeds; a confidence_score that is       *)
(* present but cannot be coerced to a number makes the parser fail with   *)
(* the wrapped parse error.                                               *)
(***************************************************************************)
C6_DefaultOnlyWhenAbsent ==
    (Parsed /\ SchemaValid(WithoutConfidence(api_response))) =>
       /\ api_response.confidence_score.t = "absent" =>
             /\ result.ok
             /\ result.value.confidence_score
                   = [v |-> DEFAULT_CONFIDENCE, nan |-> FALSE]
       /\ NotCoercible(api_response.confidence_score) =>
             /\ ~result.ok
             /\ result.err[1] = ParseErrorPrefix

C6_Witness ==
    /\ pc = "validated"
    /\ parses = 1
    /\ SchemaValid(WithoutConfidence(api_response))
    /\ api_response.confidence_score = JStr("high")
    /\ ~result.ok

(***************************************************************************)
(* C7.  The parser fails whenever an element of detailed_validations has a *)
(* severity other than critical, high, moderate, low, info; every          *)
(* DetailedValidation of a returned response has a severity in that set.   *)
(***************************************************************************)
C7_SeverityIsALevel ==
    result.ok =>
       \A i \in 1..Len(result.value.detailed_validations) :
          result.value.detailed_validations[i].severity \in SeverityLevels

(***************************************************************************)
(* C8.  When the retry budget is exhausted, call_openai raises one         *)
(* terminal failure whose message names the class of the last attempt's    *)
(* error only: the JSON-parse message if the last attempt returned text    *)
(* that is not JSON, the service-call message otherwise, whatever the      *)
(* earlier attempts failed with.                                           *)
(***************************************************************************)
C8_LastErrorClass ==
    (CompletionFailed /\ outcomes # <<>>) =>
       /\ ~result.ok
       /\ outcomes[Len(outcomes)] = "non_json" =>
             result.err = <<JsonFailureMessage>>
       /\ outcomes[Len(outcomes)] # "non_json" =>
             /\ Len(result.err) = 2
             /\ result.err[1] = ApiFailurePrefix

C8_Witness ==
    /\ pc = "validated"
    /\ outcomes = <<"APIError", "APIError", "non_json">>
    /\ result.err = <<JsonFailureMessage>>

(***************************************************************************)
(* C9.  Both orchestrators run build prompt, complete, parse in that       *)
(* order: the completion call is issued with the prompts built from the    *)
(* request, the parser runs only after the completion returned a decoded   *)
(* value, a terminal failure of the completion means the parser never      *)
(* runs, and a failure of either step is what validate raises: there is no *)
(* substitute result.                                                      *)
(***************************************************************************)
C9_BuildCompleteParse ==
    /\ calls >= 1 =>
          /\ user_message = UserMessageOf(endpoint, request)
          /\ system_prompt = SystemPromptOf(endpoint)
    /\ parses >= 1 =>
          /\ outcomes # <<>>
          /\ outcomes[Len(outcomes)] = "json"
          /\ api_response # NoResponse
    /\ (Finished /\ (outcomes = <<>> \/ outcomes[Len(outcomes)] # "json")) =>
          /\ parses = 0
          /\ api_response = NoResponse
          /\ ~result.ok
          /\ result.err[1] \in {JsonFailureMessage, ApiFailurePrefix,
                                "Max retry attempts reached"}
    /\ (Finished /\ outcomes # <<>> /\ outcomes[Len(outcomes)] = "json") =>
          /\ parses = 1
          /\ result = parse_validation_response(api_response)

C9_Witness ==
    /\ pc = "validated"
    /\ endpoint = "tests"
    /\ calls = 2
    /\ outcomes = <<"IndexError", "TypeError">>
    /\ parses = 0
    /\ ~result.ok

(***************************************************************************)
(* C10.  For both POST endpoints, any failure raised by validate yields an *)
(* HTTP 500 response whose body is {"error": {"message": <string>,         *)
(* "status_code": 500}}; a 200 response is produced only when validate     *)
(* returned a ValidationResponse, which is then the body.                  *)
(***************************************************************************)
C10_FailureIs500 ==
    pc = "done" =>
       /\ http.status_code \in {200, 500}
       /\ ~result.ok =>
             /\ http.status_code = 500
             /\ http.kind = "error"
             /\ http.error.status_code = 500
             /\ http.error.message = <<DetailPrefix(endpoint)>> \o result.err
       /\ http.status_code = 200 =>
             /\ result.ok
             /\ http.kind = "model"
             /\ http.model = result.value

C10_Witness ==
    /\ pc = "done"
    /\ endpoint = "tests"
    /\ parses = 1
    /\ ~result.ok
    /\ http.status_code = 500
    /\ http.error.message[1] = "Test validation failed: "


(***************************************************************************)
(* C12.  When the API key is absent or empty, constructing the validation  *)
(* services fails: no service instance exists afterwards, the process      *)
(* never serves a request and no completion call is ever issued.           *)
(***************************************************************************)
C12_NoKeyNoService ==
    settings.OPENAI_API_KEY = "" =>
       /\ pc \in {"import", "config_error"}
       /\ service = NoService
       /\ calls = 0
       /\ call_args = NoCall

C12_Witness ==
    /\ pc = "config_error"
    /\ settings.OPENAI_API_KEY = ""
    /\ service = NoService

(***************************************************************************)
(* C16.  For a reply that conforms to the schema, the parser succeeds; an  *)
(* absent detailed_validations gives an empty list, an absent              *)
(* recommended_alternatives gives an empty list, an absent confidence_score *)
(* gives 0.85; fields that are present (empty lists and 0.95 included) are  *)
(* carried through unchanged and in order.                                  *)
(***************************************************************************)
SameValidation(built, e) ==
    /\ built.item = e.item.s
    /\ built.severity = e.severity.s
    /\ built.issue = e.issue.s
    /\ built.recommendation = e.recommendation.s
    /\ built.evidence = (IF e.evidence.t = "str" THEN e.evidence ELSE JNull)

SameAlternative(built, a) ==
    /\ built.original_item = a.original_item.s
    /\ built.alternative = a.alternative.s
    /\ built.rationale = a.rationale.s

C16_DefaultsAndCarryThrough ==
    (Parsed /\ SchemaValid(api_response)) =>
       /\ result.ok
       /\ Len(result.value.detailed_validations)
             = Len(api_response.detailed_validations.elems)
       /\ \A i \in 1..Len(api_response.detailed_validations.elems) :
             SameValidation(result.value.detailed_validations[i],
                            api_response.detailed_validations.elems[i])
       /\ Len(result.value.recommended_alternatives)
             = Len(api_response.recommended_alternatives.elems)
       /\ \A i \in 1..Len(api_response.recommended_alternatives.elems) :
             SameAlternative(result.value.recommended_alternatives[i],
                             api_response.recommended_alternatives.elems[i])
       /\ api_response.confidence_score.t = "absent" =>
             result.value.confidence_score = [v |-> 85, nan |-> FALSE]
       /\ api_response.confidence_score.t = "num" =>
             result.value.confidence_score
                = [v |-> api_response.confidence_score.n, nan |-> FALSE]

C16_Witness ==
    /\ pc = "validated"
    /\ parses = 1
    /\ api_response = JObject(GoodSummary, AbsentList, AbsentList, Absent)
    /\ result.ok
    /\ result.value.detailed_validations = <<>>
    /\ result.value.recommended_alternatives = <<>>
    /\ result.value.confidence_score.v = 85

(***************************************************************************)
(* C17.  Every way the parser can fail (missing quick_summary, missing or  *)
(* non-string overall_status or top_priority, bad status value, malformed  *)
(* list element, out-of-range confidence) surfaces as the one wrapped      *)
(* "Failed to parse validation response" error that carries the message of *)
(* the original cause; no other error leaves the parser.                   *)
(***************************************************************************)
MalformedList(field, required) ==
    \E i \in 1..Len(field.elems) :
       \/ field.elems[i].t # "obj"
       \/ \E f \in required : field.elems[i][f].t # "str"

ListedParseFailure(resp) ==
    /\ resp.t = "obj"
    /\ \/ resp.quick_summary.t = "absent"
       \/ /\ resp.quick_summary.t = "obj"
          /\ \/ resp.quick_summary.overall_status.t # "str"
             \/ resp.quick_summary.top_priority.t # "str"
             \/ resp.quick_summary.overall_status.s \notin AllowedStatus
       \/ MalformedList(resp.detailed_validations,
                        {"item", "severity", "issue", "recommendation"})
       \/ MalformedList(resp.recommended_alternatives,
                        {"original_item", "alternative", "rationale"})
       \/ /\ resp.confidence_score.t = "num"
          /\ ~(resp.confidence_score.n \in 0..100)

C17_OneWrappedParseError ==
    Parsed =>
       /\ ListedParseFailure(api_response) => ~result.ok
       /\ ~result.ok =>
             /\ Len(result.err) = 2
             /\ result.err[1] = ParseErrorPrefix
             /\ result.err[2] = ParseBody(api_response).err

C17_Witness ==
    /\ pc = "validated"
    /\ parses = 1
    /\ api_response.t = "obj"
    /\ api_response.quick_summary.t = "absent"
    /\ result.err = <<ParseErrorPrefix, "'quick_summary'">>

(***************************************************************************)
(* C18.  Every completion call, on every attempt, is configured with the   *)
(* configured model, temperature, maximum output tokens, the JSON-object   *)
(* response format and the configured per-call timeout REQUEST_TIMEOUT.    *)
(***************************************************************************)
C18_CallConfiguration ==
    calls >= 1 =>
       /\ call_args.model = settings.OPENAI_MODEL
       /\ call_args.temperature = settings.OPENAI_TEMPERATURE
       /\ call_args.max_tokens = settings.OPENAI_MAX_TOKENS
       /\ call_args.response_format = "json_object"
       /\ call_args.timeout = [given |-> TRUE, seconds |-> settings.REQUEST_TIMEOUT]

(***************************************************************************)
(* Log records of call_openai.                                             *)
(***************************************************************************)
LogCount(level, msgs) ==
    Cardinality({i \in 1..Len(log) : /\ log[i].logger = "service"
                                     /\ log[i].level = level
                                     /\ log[i].msg \in msgs})

CallInfoEvents ==
    LogCount("INFO", {"Calling OpenAI API", "OpenAI API call successful"})

CallErrorEvents ==
    LogCount("ERROR", {"JSON decode error", "OpenAI API error"})

\* call_openai has returned or raised
CallEnded == pc \in {"parse", "validated", "done"}

FailedAttempts ==
    Cardinality({i \in 1..Len(outcomes) : outcomes[i] \in FailureKinds})

(***************************************************************************)
(* C19.  As stated: one run of call_openai logs one informational event    *)
(* per attempt and one error event on terminal failure: the informational  *)
(* events are as many as the attempts, and there is one error event when   *)
(* the run ends in terminal failure.                                       *)
(***************************************************************************)
C19_OneInfoPerAttemptOneError ==
    CallEnded =>
       /\ CallInfoEvents = calls
       /\ CompletionFailed => CallErrorEvents = 1

(***************************************************************************)
(* C19, amended.  Every attempt logs one informational event when its call *)
(* is issued, a successful attempt logs a second informational event, and  *)
(* every failed attempt, not only the last, logs one error event: a run    *)
(* that ends in terminal failure has logged as many error events as        *)
(* attempts.                                                               *)
(***************************************************************************)
C19_LogPerAttempt ==
    /\ LogCount("INFO", {"Calling OpenAI API"}) = calls
    /\ LogCount("INFO", {"OpenAI API call successful"})
          = Len(outcomes) - FailedAttempts
    /\ CallErrorEvents = FailedAttempts
    /\ CompletionFailed =>
          /\ CallInfoEvents = settings.MAX_RETRY_ATTEMPTS
          /\ CallErrorEvents = settings.MAX_RETRY_ATTEMPTS

C19_Witness ==
    /\ pc = "validated"
    /\ parses = 0
    /\ settings.MAX_RETRY_ATTEMPTS = DEFAULT_MAX_RETRY_ATTEMPTS
    /\ calls = 3
    /\ CallInfoEvents = 3
    /\ CallErrorEvents = 3

(***************************************************************************)
(* C20.  If the task is cancelled while a completion call is in flight,    *)
(* the retry loop is abandoned: no further attempt is made whatever budget *)
(* remains, no result is returned or stored, and the services' shared      *)
(* state is unchanged, so that the process is afterwards in the state of   *)
(* one that never served the cancelled request.                            *)
(***************************************************************************)
C20_CancelAbandonsLoop ==
    /\ cancelled =>
          /\ pc = "cancelled"
          /\ calls = Len(outcomes) + 1
          /\ AllFailed
          /\ result = NoResult
          /\ api_response = NoResponse
          /\ parses = 0
          /\ http = NoHttp
    /\ pc \notin {"import", "config_error"} => service = ServiceInit.service
    /\ pc = "ready" =>
          /\ ~cancelled
          /\ <<endpoint, request, system_prompt, user_message>>
                = <<"none", NoRequest, "", NoMessage>>
          /\ <<attempt, calls, outcomes, parses>> = <<0, 0, <<>>, 0>>
          /\ <<api_response, result, http, call_args>>
                = <<NoResponse, NoResult, NoHttp, NoCall>>

C20_Witness ==
    /\ pc = "cancelled"
    /\ cancelled
    /\ settings.MAX_RETRY_ATTEMPTS = DEFAULT_MAX_RETRY_ATTEMPTS
    /\ calls = 1
    /\ result = NoResult


(***************************************************************************)
(* parse_validation_response on its own: one raw reply, parsed repeatedly  *)
(* while the clock that stamps the responses advances.                     *)
(***************************************************************************)
InitParse ==
    /\ settings \in {c \in Settings : /\ c.OPENAI_API_KEY # ""
                                      /\ c.MAX_RETRY_ATTEMPTS = DEFAULT_MAX_RETRY_ATTEMPTS}
    /\ pc = "parse"
    /\ endpoint = "none"
    /\ request = NoRequest
    /\ system_prompt = ""
    /\ user_message = NoMessage
    /\ attempt = 0
    /\ calls = 0
    /\ outcomes = <<>>
    /\ api_response \in RawReplies
    /\ parses = 0
    /\ result = NoResult
    /\ http = NoHttp
    /\ service = ServiceInit.service
    /\ log = <<>>
    /\ call_args = NoCall
    /\ cancelled = FALSE
    /\ content = NoText
    /\ clock = 0
    /\ parsed = <<>>
    /\ tasks = [i \in Tasks |-> NoTask]

\* one call of parse_validation_response(api_response); the raw value it was
\* given and what it returned or raised are recorded
ParseAgain ==
    /\ Len(parsed) < MaxParses
    /\ parsed' = Append(parsed, [raw |-> api_response,
                                 res |-> parse_validation_response(api_response)])
    /\ api_response' = RawAfterParse(api_response)
    /\ UNCHANGED <<settings, pc, endpoint, request, system_prompt, user_message,
                   attempt, calls, outcomes, parses, result, http, service, log,
                   call_args, cancelled, clock, tasks, content>>

\* time passes: datetime.utcnow() of the next response is later
Tick ==
    /\ clock < MaxClock
    /\ clock' = clock + 1
    /\ UNCHANGED <<settings, pc, endpoint, request, system_prompt, user_message,
                   attempt, calls, outcomes, api_response, parses, result, http,
                   service, log, call_args, cancelled, parsed, tasks, content>>

NextParse ==
    \/ ParseAgain
    \/ Tick

SpecParse == InitParse /\ [][NextParse]_vars

\* the fields of a response other than its timestamp
WithoutTimestamp(v) ==
    <<v.quick_summary, v.detailed_validations, v.recommended_alternatives,
      v.confidence_score>>

single == <<pc, endpoint, request, system_prompt, user_message, attempt, calls,
            outcomes, api_response, parses, result, http, log, call_args,
            cancelled, content>>

\* requests and completion outcomes explored for concurrent requests
PairRequests == {req \in Requests : Len(req.items) = 1}

PairReplies ==
    {JObject(GoodSummary, JList(<<>>), JList(<<>>), JNum(95)),
     JObject(SummaryObj(JStr("UNKNOWN"), JStr("No critical issues found")),
             JList(<<>>), JList(<<>>), JNum(95))}

PairOutcomes ==
    {o \in CompletionOutcomes :
        \/ o.class = "APIError"
        \/ /\ o.class = "text"
           /\ o.content.wellformed => o.content.value \in PairReplies}

InitPair ==
    /\ settings \in {c \in Settings : /\ c.OPENAI_API_KEY # ""
                                      /\ c.MAX_RETRY_ATTEMPTS < MaxRetry}
    /\ pc = "ready"
    /\ endpoint = "none"
    /\ request = NoRequest
    /\ system_prompt = ""
    /\ user_message = NoMessage
    /\ attempt = 0
    /\ calls = 0
    /\ outcomes = <<>>
    /\ api_response = NoResponse
    /\ parses = 0
    /\ result = NoResult
    /\ http = NoHttp
    /\ service = ServiceInit.service
    /\ log = <<>>
    /\ call_args = NoCall
    /\ cancelled = FALSE
    /\ content = NoText
    /\ clock = 0
    /\ parsed = <<>>
    /\ tasks = [i \in Tasks |-> NoTask]

\* variant: the attempt counter is an attribute of the service instance,
\* which every coroutine reads and writes
FrameOf_Instance(i) == 1

\* attempt is a local of call_openai (the for variable of line 44): every
\* call of the coroutine function has its own frame
FrameOf(i) == i

\* for attempt in range(MAX_RETRY_ATTEMPTS), in coroutine i
TaskLoopHasNext(i) == tasks[FrameOf(i)].attempt < settings.MAX_RETRY_ATTEMPTS

\* if attempt == settings.MAX_RETRY_ATTEMPTS - 1, in coroutine i
TaskIsFinalAttempt(i) ==
    tasks[FrameOf(i)].attempt = settings.MAX_RETRY_ATTEMPTS - 1

\* a POST arrives and is given coroutine i
TaskHandleRequest(i, ep, req) ==
    /\ tasks[i].pc = "idle"
    /\ tasks' = [tasks EXCEPT ![i] =
                   [@ EXCEPT !.pc = "loop",
                             !.endpoint = ep,
                             !.request = [req EXCEPT !.items =
                                                     ItemsAfterFormat(req.items)],
                             !.log = <<Info("main", "Processing validation"),
                                       Info("service", "Starting validation")>>,
                             !.user_message = UserMessageOf(ep, req),
                             !.system_prompt = SystemPromptOf(ep)]]
    /\ UNCHANGED <<settings, service, single, clock, parsed>>

\* lines 46-57 in coroutine i
TaskIssueCall(i) ==
    /\ tasks[i].pc = "loop"
    /\ TaskLoopHasNext(i)
    /\ tasks' = [tasks EXCEPT ![i] =
                   [@ EXCEPT !.pc = "awaiting",
                             !.calls = @ + 1,
                             !.log = Append(@, Info("service", "Calling OpenAI API")),
                             !.call_args = CompletionArgs(tasks[i].system_prompt,
                                                          tasks[i].user_message)]]
    /\ UNCHANGED <<settings, service, single, clock, parsed>>

\* line 75 in coroutine i
TaskLoopExhausted(i) ==
    /\ tasks[i].pc = "loop"
    /\ ~TaskLoopHasNext(i)
    /\ tasks' = [tasks EXCEPT ![i] =
                   [@ EXCEPT !.pc = "validated",
                             !.result = Exception(<<"Max retry attempts reached">>)]]
    /\ UNCHANGED <<settings, service, single, clock, parsed>>

\* lines 59-73 in coroutine i: its awaited call finishes
TaskCompletionReturns(i, o) ==
    LET r == AttemptResult(o)
    IN /\ tasks[i].pc = "awaiting"
       /\ tasks' =
            IF r.ok
            THEN [tasks EXCEPT ![i] =
                    [@ EXCEPT !.pc = "parse",
                              !.outcomes = Append(@, o),
                              !.content = ContentAfter(@, o),
                              !.api_response = r.value,
                              !.log = Append(@, Info("service",
                                                     "OpenAI API call successful"))]]
            ELSE IF TaskIsFinalAttempt(i)
            THEN [tasks EXCEPT ![i] =
                    [@ EXCEPT !.pc = "validated",
                              !.outcomes = Append(@, o),
                              !.content = ContentAfter(@, o),
                              !.result = TerminalError(r),
                              !.log = Append(@, AttemptErrorLog(r))]]
            ELSE [tasks EXCEPT ![i] =
                    [@ EXCEPT !.pc = "loop",
                              !.outcomes = Append(@, o),
                              !.content = ContentAfter(@, o),
                              !.log = Append(@, AttemptErrorLog(r))],
                                ![FrameOf(i)].attempt = @ + 1]
       /\ UNCHANGED <<settings, service, single, clock, parsed>>

\* validate of coroutine i after call_openai returned
TaskParseStep(i) ==
    LET r == parse_validation_response(tasks[i].api_response)
    IN /\ tasks[i].pc = "parse"
       /\ tasks' = [tasks EXCEPT ![i] =
                      [@ EXCEPT !.pc = "validated",
                                !.parses = @ + 1,
                                !.result = r,
                                !.api_response = RawAfterParse(@),
                                !.log = Append(@,
                                   IF r.ok
                                   THEN Info("service", "Validation completed")
                                   ELSE Error("service",
                                              "Error parsing validation response"))]]
       /\ UNCHANGED <<settings, service, single, clock, parsed>>

\* the endpoint of coroutine i sends its response
TaskRespond(i) ==
    /\ tasks[i].pc = "validated"
    /\ tasks' = [tasks EXCEPT ![i] =
                   [@ EXCEPT !.pc = "done",
                             !.http = EndpointResponse(tasks[i].endpoint,
                                                       tasks[i].result),
                             !.log = Append(@,
                                IF tasks[i].result.ok
                                THEN Info("main", "Validation completed")
                                ELSE Error("main", "Error in validation"))]]
    /\ UNCHANGED <<settings, service, single, clock, parsed>>

NextPair ==
    \/ \E i \in Tasks, ep \in Endpoints, req \in PairRequests :
          TaskHandleRequest(i, ep, req)
    \/ \E i \in Tasks : TaskIssueCall(i)
    \/ \E i \in Tasks : TaskLoopExhausted(i)
    \/ \E i \in Tasks, o \in PairOutcomes : TaskCompletionReturns(i, o)
    \/ \E i \in Tasks : TaskParseStep(i)
    \/ \E i \in Tasks : TaskRespond(i)

SpecPair == InitPair /\ [][NextPair]_vars

(***************************************************************************)
(* Vocabulary for concurrent requests.                                     *)
(***************************************************************************)
TaskFailedAttempts(t) ==
    Cardinality({k \in 1..Len(t.outcomes) :
                    OutcomeKind(t.outcomes[k]) \in FailureKinds})

TaskAllFailed(t) == TaskFailedAttempts(t) = Len(t.outcomes)

TaskLast(t) == t.outcomes[Len(t.outcomes)]

TaskSucceeded(t) ==
    /\ Len(t.outcomes) > 0
    /\ OutcomeKind(TaskLast(t)) = "json"

TaskFinished(t) == t.pc \in {"validated", "done"}

TaskFailed(t) == t.pc = "done" /\ ~t.result.ok

\* the class of failure of a request, as the error taxonomy names it
FailureClass(t) ==
    IF t.parses > 0 THEN "schema-validation"
    ELSE IF Len(t.outcomes) = 0 THEN "exhausted"
    ELSE IF OutcomeKind(TaskLast(t)) = "non_json" THEN "malformed-output"
    ELSE "transport"

TaskDetermined(t) ==
    LET n == Len(t.outcomes)
        max == settings.MAX_RETRY_ATTEMPTS
    IN /\ t.calls <= max
       /\ t.calls = (IF t.pc = "awaiting" THEN n + 1 ELSE n)
       /\ \A k \in 1..(n - 1) : OutcomeKind(t.outcomes[k]) \in FailureKinds
       /\ t.pc \in {"loop", "awaiting"} =>
             /\ TaskAllFailed(t)
             /\ t.attempt = n
             /\ n < max \/ max = 0
       /\ t.pc = "parse" =>
             /\ TaskSucceeded(t)
             /\ t.api_response = TaskLast(t).content.value
       /\ TaskFinished(t) =>
             IF TaskSucceeded(t)
             THEN /\ t.parses = 1
                  /\ t.api_response = TaskLast(t).content.value
                  /\ t.result = parse_validation_response(t.api_response)
             ELSE /\ TaskAllFailed(t)
                  /\ n = max
                  /\ t.parses = 0
                  /\ ~t.result.ok
                  /\ t.result.err =
                        (IF n = 0 THEN <<"Max retry attempts reached">>
                         ELSE IF OutcomeKind(TaskLast(t)) = "non_json"
                         THEN <<JsonFailureMessage>>
                         ELSE <<ApiFailurePrefix, TaskLast(t).err>>)

C13_NoInterference == \A i \in Tasks : TaskDetermined(tasks[i])

C13_Witness ==
    /\ settings.MAX_RETRY_ATTEMPTS = 2
    /\ tasks[1].pc = "awaiting"
    /\ tasks[2].pc = "awaiting"
    /\ tasks[1].calls = 2
    /\ tasks[1].attempt = 1
    /\ tasks[2].calls = 1
    /\ tasks[2].attempt = 0

C21_NumberedListing ==
    pc \notin {"import", "config_error", "ready"} =>
       /\ request \in Requests
       /\ Len(user_message.listing) = Len(request.items)
       /\ \A i \in 1..Len(request.items) :
             /\ user_message.listing[i].number = i
             /\ user_message.listing[i].sep = ". "
             /\ user_message.listing[i].text = request.items[i]
       /\ request.items = <<>> => user_message.listing = <<>>
       /\ calls > 0 => call_args.user.listing = user_message.listing

C21_Witness ==
    /\ pc = "awaiting"
    /\ endpoint = "tests"
    /\ request.items = <<"Troponin", "Aspirin">>
    /\ Len(user_message.listing) = 2
    /\ user_message.listing[1] = [number |-> 1, sep |-> ". ", text |-> "Troponin"]
    /\ user_message.listing[2] = [number |-> 2, sep |-> ". ", text |-> "Aspirin"]


(***************************************************************************)
(* Vocabulary for the last finished attempt.                               *)
(***************************************************************************)
LastOutcome == IF outcomes = <<>> THEN "none" ELSE outcomes[Len(outcomes)]

\* a decoded value that is not a validation reply: not an object, or an
\* object without quick_summary
WrongShape(resp) ==
    \/ resp.t # "obj"
    \/ resp.quick_summary.t = "absent"

\* the completion call returned normally but without usable text
NoTextKinds == {"IndexError", "TypeError"}

(***************************************************************************)
(* C22.  The only success criterion of call_openai is that the returned    *)
(* text decodes as JSON: a reply that is JSON of any shape ends the retry  *)
(* loop on that attempt and is handed to the caller as decoded, and a      *)
(* wrong shape (an array, a number, null, an object without                *)
(* quick_summary) is reported by the parser alone, as a parse failure.     *)
(***************************************************************************)
C22_JsonEndsTheLoop ==
    LastOutcome = "json" =>
       /\ pc \in {"parse", "validated", "done"}
       /\ calls = Len(outcomes)
       /\ content.set
       /\ ~content.null
       /\ content.text.wellformed
       /\ api_response = content.text.value
       /\ pc = "parse" => result = NoResult /\ parses = 0
       /\ pc \in {"validated", "done"} => parses = 1
       /\ (WrongShape(api_response) /\ pc \in {"validated", "done"}) =>
             /\ ~result.ok
             /\ Len(result.err) = 2
             /\ result.err[1] = ParseErrorPrefix

C22_Witness ==
    /\ pc = "validated"
    /\ settings.MAX_RETRY_ATTEMPTS = DEFAULT_MAX_RETRY_ATTEMPTS
    /\ outcomes = <<"json">>
    /\ calls = 1
    /\ api_response = JOther("list")
    /\ parses = 1
    /\ ~result.ok
    /\ result.err[1] = ParseErrorPrefix

(***************************************************************************)
(* C23.  An attempt whose completion call returns normally but without     *)
(* usable text (no choices, or null content) is a failed attempt that      *)
(* draws on the retry budget, and it is a service-call failure, not a      *)
(* JSON failure: nothing is parsed, the loop goes on while budget remains, *)
(* and on the final attempt the terminal message has the "OpenAI API call  *)
(* failed" form.                                                           *)
(***************************************************************************)
C23_NoTextIsCallFailure ==
    LastOutcome \in NoTextKinds =>
       /\ calls <= settings.MAX_RETRY_ATTEMPTS
       /\ api_response = NoResponse
       /\ parses = 0
       /\ Len(outcomes) < settings.MAX_RETRY_ATTEMPTS =>
             /\ pc \in {"loop", "awaiting", "cancelled"}
             /\ attempt = Len(outcomes)
             /\ result = NoResult
       /\ pc = "loop" => log[Len(log)] = Error("service", "OpenAI API error")
       /\ Len(outcomes) = settings.MAX_RETRY_ATTEMPTS =>
             /\ pc \in {"validated", "done"}
             /\ ~result.ok
             /\ Len(result.err) = 2
             /\ result.err[1] = ApiFailurePrefix
             /\ result.err # <<JsonFailureMessage>>

C23_Witness ==
    /\ pc = "validated"
    /\ settings.MAX_RETRY_ATTEMPTS = 2
    /\ outcomes = <<"IndexError", "TypeError">>
    /\ calls = 2
    /\ content.null
    /\ result.err = <<ApiFailurePrefix, "the JSON object must be str, not NoneType">>


(***************************************************************************)
(* Any configured budget.  MAX_RETRY_ATTEMPTS is a plain int setting       *)
(* (config.py line 25) that the environment can set to any integer, a      *)
(* negative one included; range() of it is then empty.                     *)
(***************************************************************************)
AnyRetrySettings == (0 - 1)..MaxRetry

AnySettings ==
    {[c EXCEPT !.MAX_RETRY_ATTEMPTS = n] : c \in Settings, n \in AnyRetrySettings}

InitAnyBudget ==
    /\ settings \in AnySettings
    /\ pc = "import"
    /\ endpoint = "none"
    /\ request = NoRequest
    /\ system_prompt = ""
    /\ user_message = NoMessage
    /\ attempt = 0
    /\ calls = 0
    /\ outcomes = <<>>
    /\ api_response = NoResponse
    /\ parses = 0
    /\ result = NoResult
    /\ http = NoHttp
    /\ service = NoService
    /\ log = <<>>
    /\ call_args = NoCall
    /\ cancelled = FALSE
    /\ content = NoText
    /\ clock = 0
    /\ parsed = <<>>
    /\ tasks = [i \in Tasks |-> NoTask]

SpecAnyBudget == InitAnyBudget /\ [][Next]_vars

\* the error of line 75, raised after the loop
FallThroughError == Exception(<<"Max retry attempts reached">>)

(***************************************************************************)
(* C24.  With MAX_RETRY_ATTEMPTS configured as 0 or negative, call_openai  *)
(* makes no completion call and raises "Max retry attempts reached",       *)
(* which is neither of the two last-error-class messages; with             *)
(* MAX_RETRY_ATTEMPTS >= 1 that error is never raised.                     *)
(***************************************************************************)
C24_FallThroughOnlyWithoutBudget ==
    /\ settings.MAX_RETRY_ATTEMPTS <= 0 =>
          /\ calls = 0
          /\ outcomes = <<>>
          /\ call_args = NoCall
          /\ pc \notin {"awaiting", "parse", "cancelled"}
          /\ pc \in {"validated", "done"} =>
                /\ result = FallThroughError
                /\ result.err # <<JsonFailureMessage>>
                /\ result.err[1] # ApiFailurePrefix
                /\ parses = 0
    /\ settings.MAX_RETRY_ATTEMPTS >= 1 => result # FallThroughError

C24_Witness ==
    /\ pc = "validated"
    /\ settings.MAX_RETRY_ATTEMPTS < 0
    /\ calls = 0
    /\ log = <<Info("main", "Processing validation"),
               Info("service", "Starting validation")>>
    /\ result = FallThroughError


====
